---- MODULE Spec2Model ----
(***************************************************************************)
(* A model of the two stateful pieces of the AWS command-line tool in      *)
(* src/src/main.rs: logs_recent_streams (cursor-paginated, rate-bounded    *)
(* listing of log streams) and for_each (sequential batch executor), as    *)
(* dispatched by main.  One behaviour of the model is one run of the       *)
(* process on one command line.                                            *)
(***************************************************************************)
EXTENDS Integers, Sequences, FiniteSets, TLC

(***************************************************************************)
(* Bounds of the model.                                                    *)
(***************************************************************************)
\* --limit ranges over q * 50 + d, q \in 0..MaxPages, d \in 0..MaxExtra
MaxPages == 10
MaxExtra == 2
\* the log group holds between limit - MaxDelta and limit + MaxDelta streams
MaxDelta == 1
\* a page is full, short by at most MaxShort streams, or empty
MaxShort == 1
\* a stream without a name sits among the first MaxBad of a page, or is its last
MaxBad == 1
\* for_each gets at most MaxIds instance ids
MaxIds == 3
\* width of the scaled machine word that stands for usize / i64
WordBits == 12

(***************************************************************************)
(* Program constants.                                                      *)
(***************************************************************************)
\* std::cmp::min(remaining, 50): the maximum for a single request
MaxItemsPerRequest == 50
\* for _ in 0..5
RequestsPerWindow == 5
\* time::Duration::from_secs(1)
SleepSecs == 1
\* let mut next_token = None
NoToken == -1

\* the messages of the errors the two functions return
FailedToList == "failed to list streams"
MissingName == "missing log stream name"
OneOrMoreFailed == "one or more operations failed"

Ids == {"i-a", "i-b"}

Min(a, b) == IF a <= b THEN a ELSE b
Max(a, b) == IF a >= b THEN a ELSE b

\* `args.limit as i64`: a usize reinterpreted as a signed word of the same width
AsSigned(n) == IF n >= 2 ^ (WordBits - 1) THEN n - 2 ^ WordBits ELSE n

\* a plausible slip: the cap of a single request is forgotten
RequestLimitUncapped(rem) == rem

\* let limit = std::cmp::min(remaining, 50)
RequestLimit(rem) == Min(rem, MaxItemsPerRequest)

\* a plausible slip: the budget is never charged
DecrementNothing(rem, lim) == rem

\* remaining -= limit
Decrement(rem, lim) == rem - lim

\* the command lines of the model: --limit values around the multiples of 50
Limits == {q * MaxItemsPerRequest + d : q \in 0..MaxPages, d \in 0..MaxExtra}

\* the --limit values the cast to i64 does not keep: i64::MAX + 1 and usize::MAX
\* of the scaled word
WideLimits == {2 ^ (WordBits - 1), 2 ^ WordBits - 1}

\* the number of streams the log group holds, for a run with --limit l
Totals(l) == {n \in (l - MaxDelta)..(l + MaxDelta) : n >= 0}

\* all sequences over S of length at most n
SeqUpTo(S, n) == UNION {[1..k -> S] : k \in 0..n}

VARIABLES
    cmd,            \* the Command main matched: "logs" or "ec2"
    pc,             \* position in the function main called
    result,         \* what main returns: "running", "Ok" or an error message
    \* logs_recent_streams
    limit,          \* args.limit
    total,          \* the number of streams in the log group (the source)
    next_token,     \* NoToken, or the position the next page starts after
    remaining,      \* remaining
    iter,           \* iterations of `for _ in 0..5` completed in this round
    sent,           \* <<>> or <<the DescribeLogStreamsRequest last issued>>
    got_token,      \* <<>> or <<resp.next_token of the last page received>>
    missing,        \* the field the last page received lacked, or "none"
    printed,        \* number of stream names printed on stdout
    clock,          \* seconds slept so far (the simulated clock)
    trace,          \* the requests, failures and sleeps so far, each with its clock
    \* for_each
    input_ids,      \* the instance_ids for_each was called with
    instance_ids,   \* what remains in instance_ids.drain(..)
    invoked,        \* the ids func was called with, in order
    outcomes,       \* TRUE at i iff the i-th call of func returned Err
    stderr,         \* the errors printed by eprintln!, in order
    any_errors      \* any_errors

fetch_vars == <<limit, total, next_token, remaining, iter, sent, got_token,
                missing, printed, clock, trace>>
batch_vars == <<input_ids, instance_ids, invoked, outcomes, stderr, any_errors>>
vars == <<cmd, pc, result, fetch_vars, batch_vars>>

\* a plausible slip: the flag starts set
NoErrorsYetSet == TRUE

\* let mut any_errors = false
NoErrorsYet == FALSE

\* the error func returned for an id
ActionError(id) == <<"ActionError", id>>

InitLogs ==
    /\ cmd = "logs"
    /\ pc = "request"
    /\ limit \in Limits \cup WideLimits
    /\ total \in Totals(limit)
    /\ next_token = NoToken
    /\ remaining = AsSigned(limit)
    /\ input_ids = <<>>
    /\ instance_ids = <<>>

InitEc2 ==
    /\ cmd = "ec2"
    /\ pc = "loop"
    /\ limit = 0
    /\ total = 0
    /\ next_token = NoToken
    /\ remaining = 0
    /\ input_ids \in SeqUpTo(Ids, MaxIds)
    /\ instance_ids = input_ids

Init ==
    /\ InitLogs \/ InitEc2
    /\ result = "running"
    /\ iter = 0
    /\ sent = <<>>
    /\ got_token = <<>>
    /\ missing = "none"
    /\ printed = 0
    /\ clock = 0
    /\ trace = <<>>
    /\ invoked = <<>>
    /\ outcomes = <<>>
    /\ stderr = <<>>
    /\ any_errors = NoErrorsYet

(***************************************************************************)
(* logs_recent_streams                                                     *)
(***************************************************************************)

\* a plausible slip: the request is built without the token
RequestTokenDropped(tok) == NoToken

\* next_token: next_token.clone()
RequestToken(tok) == tok

\* client.describe_log_streams(DescribeLogStreamsRequest { .. })
SendRequest ==
    /\ cmd = "logs"
    /\ pc = "request"
    /\ sent' = <<[limit |-> RequestLimit(remaining),
                   next_token |-> RequestToken(next_token)]>>
    /\ trace' = Append(trace, [ev |-> "req", at |-> clock])
    /\ pc' = "wait"
    /\ UNCHANGED <<cmd, result, limit, total, next_token, remaining, iter,
                   got_token, missing, printed, clock, batch_vars>>

\* a plausible slip: the failure of the request is swallowed
SyncErrSwallowed == [pc |-> "done", result |-> "Ok"]

\* a plausible slip: the failed request is tried again
SyncErrRetried == [pc |-> "request", result |-> "running"]

\* .context("failed to list streams")? on an Err: the function returns the error
SyncErr == [pc |-> "done", result |-> FailedToList]

\* .sync() returned Err: the request in flight failed
RequestFails ==
    /\ cmd = "logs"
    /\ pc = "wait"
    /\ trace' = Append(trace, [ev |-> "error", at |-> clock])
    /\ result' = SyncErr.result
    /\ pc' = SyncErr.pc
    /\ UNCHANGED <<cmd, limit, total, next_token, remaining, iter, sent,
                   got_token, missing, printed, clock, batch_vars>>

\* where the page asked for by request r starts
StartOf(r) == IF r.next_token = NoToken THEN 0 ELSE r.next_token

\* the most streams the source can put on the page request r asks for
FullPage(r) == Min(Max(r.limit, 0), total - StartOf(r))

\* the page sizes of the model
PageSizes(r) == {k \in 0..FullPage(r) : k = 0 \/ k >= FullPage(r) - MaxShort}

\* the positions on a page of k streams where the first nameless stream may be
BadPositions(k) == {j \in 1..k : j <= MaxBad \/ j = k}

\* a plausible slip: the round ends one request early
AfterIterationOffByOne(i) ==
    IF i >= RequestsPerWindow - 1 THEN "sleep" ELSE "request"

\* a plausible slip: the rounds of five follow each other without a sleep
AfterIterationNoSleep(i) == "request"

\* for _ in 0..5 { .. } thread::sleep(..): where the loop goes after an iteration
AfterIteration(i) == IF i >= RequestsPerWindow THEN "sleep" ELSE "request"

\* the body of the for loop after a page arrived: k streams (none when has_list
\* is FALSE), the first nameless one at bad (0: all named), has_next says
\* whether resp.next_token is Some
HandlePage(k, bad, has_next) ==
    LET r == sent[1]
        rem == Decrement(remaining, r.limit)
    IN  /\ got_token' = <<IF has_next THEN StartOf(r) + k ELSE NoToken>>
        /\ IF bad > 0
             THEN /\ printed' = printed + (bad - 1)
                  /\ result' = MissingName
                  /\ pc' = "done"
                  /\ UNCHANGED <<remaining, next_token, iter>>
             ELSE /\ printed' = printed + k
                  /\ IF ~has_next
                       THEN /\ result' = "Ok"
                            /\ pc' = "done"
                            /\ UNCHANGED <<remaining, next_token, iter>>
                       ELSE /\ remaining' = rem
                            /\ IF rem <= 0
                                 THEN /\ result' = "Ok"
                                      /\ pc' = "done"
                                      /\ UNCHANGED <<next_token, iter>>
                                 ELSE /\ next_token' = StartOf(r) + k
                                      /\ iter' = iter + 1
                                      /\ pc' = AfterIteration(iter + 1)
                                      /\ UNCHANGED result

\* the field a page lacks: resp.log_streams is None, or the log_stream_name of
\* the stream at bad is None
MissingField(has_list, bad) ==
    IF ~has_list THEN "log_streams"
    ELSE IF bad > 0 THEN "log_stream_name" ELSE "none"

\* .sync() returned Ok(resp): the source answers the request in flight
Respond ==
    /\ cmd = "logs"
    /\ pc = "wait"
    /\ \E has_list \in BOOLEAN, has_next \in BOOLEAN :
         \E k \in IF has_list THEN PageSizes(sent[1]) ELSE {0} :
           \E bad \in {0} \cup BadPositions(k) :
             \* no cursor means the source is exhausted
             /\ has_next \/ StartOf(sent[1]) + k = total
             /\ missing' = MissingField(has_list, bad)
             /\ HandlePage(k, bad, has_next)
    /\ UNCHANGED <<cmd, limit, total, sent, clock, trace, batch_vars>>

\* thread::sleep(time::Duration::from_secs(1)), then the next round of `loop`
Sleep ==
    /\ cmd = "logs"
    /\ pc = "sleep"
    /\ clock' = clock + SleepSecs
    /\ trace' = Append(trace, [ev |-> "sleep", at |-> clock])
    /\ iter' = 0
    /\ pc' = "request"
    /\ UNCHANGED <<cmd, result, limit, total, next_token, remaining, sent,
                   got_token, missing, printed, batch_vars>>

(***************************************************************************)
(* for_each                                                                *)
(***************************************************************************)

\* a plausible slip: the first failure ends the loop
DrainedUntilFailure(ids, failed) == IF failed THEN <<>> ELSE Tail(ids)

\* what instance_ids.drain(..) still holds after yielding its head
Drained(ids, failed) == Tail(ids)

\* a plausible slip: the error of a call is dropped
EprintlnNothing(log, id, failed) == log

\* eprintln!("{}", err) inside `if let Err(err) = func(id)`
Eprintln(log, id, failed) == IF failed THEN Append(log, ActionError(id)) ELSE log

\* a plausible slip: the flag follows the last call only
AnyErrorsLast(prev, failed) == failed

\* any_errors = true inside `if let Err(err) = func(id)`
AnyErrors(prev, failed) == prev \/ failed

\* one iteration of `for id in instance_ids.drain(..)`: func(id) returns Err
\* iff failed
ForEachItem ==
    /\ cmd = "ec2"
    /\ pc = "loop"
    /\ instance_ids # <<>>
    /\ \E failed \in BOOLEAN :
         LET id == Head(instance_ids)
         IN  /\ invoked' = Append(invoked, id)
             /\ outcomes' = Append(outcomes, failed)
             /\ stderr' = Eprintln(stderr, id, failed)
             /\ any_errors' = AnyErrors(any_errors, failed)
             /\ instance_ids' = Drained(instance_ids, failed)
    /\ UNCHANGED <<cmd, pc, result, input_ids, fetch_vars>>

\* if any_errors { throw!(anyhow!("one or more operations failed")) }
ForEachEnd ==
    /\ cmd = "ec2"
    /\ pc = "loop"
    /\ instance_ids = <<>>
    /\ result' = IF any_errors THEN OneOrMoreFailed ELSE "Ok"
    /\ pc' = "done"
    /\ UNCHANGED <<cmd, input_ids, instance_ids, invoked, outcomes, stderr,
                   any_errors, fetch_vars>>

Next ==
    \/ SendRequest
    \/ RequestFails
    \/ Respond
    \/ Sleep
    \/ ForEachItem
    \/ ForEachEnd

Spec == Init /\ [][Next]_vars

(***************************************************************************)
(* Helpers of the properties.                                              *)
(***************************************************************************)

\* the clocks of the page requests issued so far, in order
ReqTimes == LET reqs == SelectSeq(trace, LAMBDA e : e.ev = "req")
            IN  [i \in DOMAIN reqs |-> reqs[i].at]

\* the place in trace of the n-th page request
ReqPlace(n) ==
    CHOOSE p \in DOMAIN trace :
        /\ trace[p].ev = "req"
        /\ Cardinality({q \in 1..p : trace[q].ev = "req"}) = n

\* the sleeps between the n-th page request and the next one
SleepsAfterReq(n) ==
    {p \in DOMAIN trace : /\ trace[p].ev = "sleep"
                          /\ ReqPlace(n) < p
                          /\ p < ReqPlace(n + 1)}

HasError(t) == \E p \in DOMAIN t : t[p].ev = "error"

\* the errors of the failed calls of func, in the order of the calls
RECURSIVE Surfaced(_, _)
Surfaced(ids, outs) ==
    IF ids = <<>> THEN <<>>
    ELSE (IF Head(outs) THEN <<ActionError(Head(ids))>> ELSE <<>>)
         \o Surfaced(Tail(ids), Tail(outs))

AnyFailed == \E i \in DOMAIN outcomes : outcomes[i]

(***************************************************************************)
(* The claims.                                                             *)
(***************************************************************************)

\* C1: with --limit 0 the fetch issues no page request and prints nothing.
C1_ZeroLimitNoRequest ==
    (cmd = "logs" /\ limit = 0) => (trace = <<>> /\ sent = <<>> /\ printed = 0)

\* C2: with a limit L > 0 and a source holding more than L streams, a fetch
\* that returns Ok has printed exactly L streams, and once L streams are
\* printed no further request is issued.
C2_ExactlyLimit ==
    (cmd = "logs" /\ limit > 0 /\ total > limit) =>
        /\ result = "Ok" => printed = limit
        /\ printed >= limit => pc = "done"

\* C3: with a limit L > 0 and a source holding fewer than L streams, the fetch
\* goes on until a page arrives without a cursor, stops at that page, and has
\* then printed every stream of the source.
C3_DrainsSource ==
    (cmd = "logs" /\ limit > 0 /\ total < limit) =>
        /\ result = "Ok" => (got_token = <<NoToken>> /\ printed = total)
        /\ got_token = <<NoToken>> => pc = "done"

\* C4: no more than 5 page requests fall into any 1-second window of the
\* clock, and between every 5th request and the request after it there is
\* exactly one sleep, of 1 second.
C4_RateDiscipline ==
    LET t == ReqTimes
    IN  /\ \A i, j \in DOMAIN t : (i <= j /\ t[j] - t[i] < 1) => j - i + 1 <= 5
        /\ \A n \in DOMAIN t :
             (n % 5 = 0 /\ n + 1 \in DOMAIN t) =>
                 /\ Cardinality(SleepsAfterReq(n)) = 1
                 /\ t[n + 1] - t[n] = 1

C4_Witness == Len(ReqTimes) >= 6

\* C5: every page request asks for at most min(L - streams printed so far, 50)
\* streams.
C5_RequestCap ==
    sent # <<>> =>
        /\ sent[1].limit <= 50
        /\ pc = "wait" => sent[1].limit <= Min(limit - printed, 50)

C5_Witness ==
    /\ pc = "wait"
    /\ Len(ReqTimes) >= 2
    /\ sent[1].limit = limit - printed
    /\ sent[1].limit < 50

\* C6: for_each calls func on every id exactly once and in input order,
\* whichever earlier calls failed: the ids called so far followed by the ids
\* still to come are the input, and at the end the ids called are the input.
C6_EveryInputOnce ==
    cmd = "ec2" =>
        /\ invoked \o instance_ids = input_ids
        /\ pc = "done" => invoked = input_ids

C6_Witness ==
    /\ cmd = "ec2"
    /\ pc = "done"
    /\ Len(input_ids) = 3
    /\ outcomes[1]
    /\ ~outcomes[3]
    /\ invoked = input_ids

\* C7: for_each returns the aggregate error if and only if some call of func
\* failed, returns Ok otherwise, and returns only after every id was processed.
C7_AggregateVerdict ==
    cmd = "ec2" =>
        /\ result # "running" =>
               /\ pc = "done"
               /\ instance_ids = <<>>
               /\ Len(outcomes) = Len(input_ids)
        /\ pc = "done" =>
               /\ result = OneOrMoreFailed <=> AnyFailed
               /\ result = "Ok" <=> ~AnyFailed

C7_Witness ==
    /\ cmd = "ec2"
    /\ pc = "done"
    /\ Len(outcomes) = 3
    /\ outcomes[1]
    /\ ~outcomes[2]
    /\ ~outcomes[3]
    /\ result = OneOrMoreFailed

\* C8: the errors printed are, at every moment, exactly the errors of the
\* failed calls so far, one per failed call, in input order; what for_each
\* returns is never the error of a call.
C8_ErrorsSurfaced ==
    cmd = "ec2" =>
        /\ stderr = Surfaced(invoked, outcomes)
        /\ result \in {"running", "Ok", OneOrMoreFailed}

C8_Witness ==
    /\ cmd = "ec2"
    /\ pc = "loop"
    /\ instance_ids # <<>>
    /\ Len(outcomes) = 2
    /\ outcomes[1]
    /\ ~outcomes[2]
    /\ stderr = <<ActionError(input_ids[1])>>

\* C9: a failed page request is the last thing the fetch does: the fetch is
\* over, returns that failure, issues no request and no sleep after it, and
\* the step in which the request fails prints nothing and takes nothing back.
C9_FailureAborts ==
    /\ [](HasError(trace) =>
            /\ trace[Len(trace)].ev = "error"
            /\ Cardinality({p \in DOMAIN trace : trace[p].ev = "error"}) = 1
            /\ pc = "done"
            /\ result = FailedToList)
    /\ [][(HasError(trace') /\ ~HasError(trace)) =>
            /\ printed' = printed
            /\ trace' = Append(trace, [ev |-> "error", at |-> clock])]_vars

C9_Witness ==
    /\ HasError(trace)
    /\ printed > 0
    /\ Len(ReqTimes) >= 2
    /\ result = FailedToList

\* C10: for_each on no ids calls func never, prints no error and returns Ok.
C10_EmptyBatch ==
    (cmd = "ec2" /\ input_ids = <<>>) =>
        /\ invoked = <<>>
        /\ stderr = <<>>
        /\ result \in {"running", "Ok"}
        /\ pc = "done" => result = "Ok"

C10_Witness ==
    /\ cmd = "ec2"
    /\ input_ids = <<>>
    /\ pc = "done"
    /\ result = "Ok"

\* C12: a page that lacks its list of streams, or the name of one of its
\* streams, ends the fetch in an error: nothing is requested after it.
\* (Stated for the fetches with a positive limit, whose requests are valid.)
C12_MissingFieldIsError ==
    (cmd = "logs" /\ limit > 0 /\ missing # "none") =>
        /\ pc = "done"
        /\ result \notin {"running", "Ok"}

\* C13: what main returns is an error exactly when the fetch was cut short by
\* an error (a failed request, a stream without a name) or some call of the
\* batch failed; a fetch whose first page is empty and carries no cursor
\* returns Ok, which is none of the error values.
C13_ProcessOutcome ==
    pc = "done" =>
        /\ result \in {"Ok", FailedToList, MissingName, OneOrMoreFailed}
        /\ (result # "Ok") <=>
               \/ cmd = "logs" /\ (HasError(trace) \/ missing = "log_stream_name")
               \/ cmd = "ec2" /\ AnyFailed
        /\ (/\ cmd = "logs"
            /\ ~HasError(trace)
            /\ Len(ReqTimes) = 1
            /\ got_token = <<NoToken>>
            /\ missing # "log_stream_name"
            /\ printed = 0) => result = "Ok"

C13_Witness ==
    /\ cmd = "logs"
    /\ limit > 0
    /\ pc = "done"
    /\ Len(ReqTimes) = 1
    /\ got_token = <<NoToken>>
    /\ missing = "none"
    /\ printed = 0
    /\ result = "Ok"

\* C14: the number of streams printed never exceeds the limit, at any point
\* of the fetch, also when pages are shorter than requested.
C14_NeverAboveLimit ==
    cmd = "logs" => printed <= limit

\* a fetch of several pages, one of them short, that printed up to the limit
C14_Witness ==
    /\ cmd = "logs"
    /\ pc = "done"
    /\ result = "Ok"
    /\ Len(ReqTimes) >= 3
    /\ remaining < limit - printed
    /\ printed = limit - 1

\* the number of requests of at most 50 streams that make up l streams
PagesFor(l) == (l + 49) \div 50

\* C15: with a limit L > 0, whatever the source answers, the budget is
\* positive at every request and strictly smaller after every request that
\* does not end the fetch, so the fetch issues at most ceil(L / 50) requests.
C15_BudgetBoundsRequests ==
    /\ []((cmd = "logs" /\ limit > 0) =>
            /\ pc = "wait" => remaining > 0
            /\ Len(ReqTimes) <= PagesFor(limit))
    /\ [][(cmd = "logs" /\ limit > 0 /\ pc = "wait" /\ pc' # "done") =>
            remaining' < remaining]_vars

\* C18: for every limit of the unsigned word the budget starts equal to the
\* limit after the cast to the signed word, and every request asks for a
\* number of streams in 0..50.
C18_BudgetStartsAtLimit ==
    cmd = "logs" =>
        /\ trace = <<>> => remaining = limit
        /\ sent # <<>> => sent[1].limit \in 0..50

\* the number of sleeps so far
SleepCount == Cardinality({p \in DOMAIN trace : trace[p].ev = "sleep"})

\* the number of page requests issued before place p of trace
ReqsBefore(p) == Cardinality({q \in 1..(p - 1) : trace[q].ev = "req"})

\* C16: the counter of the round is zeroed only by a sleep, and a sleep
\* happens only after exactly 5 requests since the previous sleep (or the
\* start) and is followed by a request: no sleep before the first request or
\* after the last one, and n >= 1 requests contain floor((n - 1) / 5) sleeps.
C16_PausesOnlyBetweenRounds ==
    /\ [](cmd = "logs" =>
            LET n == Len(ReqTimes)
            IN  /\ \A p \in DOMAIN trace :
                     trace[p].ev = "sleep" =>
                         /\ ReqsBefore(p) = 5 * Cardinality({q \in 1..p : trace[q].ev = "sleep"})
                         /\ p < Len(trace) => trace[p + 1].ev = "req"
                         /\ p = Len(trace) => pc = "request"
                /\ (n >= 1 /\ pc \in {"wait", "done"}) => SleepCount = (n - 1) \div 5
                /\ pc = "request" => (SleepCount = n \div 5 /\ iter = n - 5 * SleepCount)
                /\ pc = "sleep" => (n >= 5 /\ n % 5 = 0 /\ iter = 5
                                    /\ SleepCount = (n - 1) \div 5))
    /\ [][/\ (iter' = 0 /\ iter # 0) => (pc = "sleep" /\ clock' = clock + 1)
          /\ clock' # clock => (pc = "sleep" /\ iter = 5 /\ iter' = 0)]_vars

\* ten requests, the last of them the last of its round, and one sleep
C16_Witness ==
    /\ cmd = "logs"
    /\ pc = "done"
    /\ result = "Ok"
    /\ Len(ReqTimes) = 10
    /\ SleepCount = 1

\* C17: the first page request carries no token, every later one carries the
\* token of the response just before it, and a sleep changes neither the
\* token nor the budget.
C17_TokenChain ==
    /\ []((cmd = "logs" /\ pc = "wait") =>
            IF Len(ReqTimes) = 1
              THEN sent[1].next_token = NoToken
              ELSE /\ got_token # <<>>
                   /\ got_token[1] # NoToken
                   /\ sent[1].next_token = got_token[1])
    /\ [][pc = "sleep" => (next_token' = next_token /\ remaining' = remaining)]_vars

\* the request right after a sleep is in flight
C17_Witness ==
    /\ cmd = "logs"
    /\ pc = "wait"
    /\ Len(ReqTimes) = 6
    /\ SleepCount = 1
    /\ sent[1].next_token = got_token[1]
    /\ sent[1].next_token > 0

====
